---- MODULE Spec2Model ----
(***************************************************************************)
(* Propositional formulas (propositions/syntax.py), their semantics        *)
(* (propositions/semantics.py) and the conversions to restricted operator  *)
(* sets (propositions/operators.py).                                       *)
(*                                                                         *)
(* A Python str is a sequence of one-character strings, so that parsing    *)
(* and printing work on characters: 'p12' is <<"p","1","2">> and '->' is   *)
(* <<"-",">">>.  A Formula object is the tuple of the attributes its       *)
(* constructor sets: <<root>>, <<root, first>> or <<root, first, second>>. *)
(* A dict is the sequence of its <<key, value>> items in insertion order.  *)
(*                                                                         *)
(* The variables hold the arguments and the result of the last call:       *)
(* formula, string, model, varlist (a list of variable names), values (a   *)
(* truth table) and args (any other argument), the name of the call, and   *)
(* what it returned.                                                       *)
(***************************************************************************)
EXTENDS Integers, Sequences, FiniteSets, TLC

VARIABLES formula, string, model, varlist, values, args, call, ret

vars == <<formula, string, model, varlist, values, args, call, ret>>

----------------------------------------------------------------------------
(* Bounds of the exploration *)

MaxNodes == 5

MaxNandNodes == 3

MaxSyntaxNodes == 5

MaxVariables == 2

MaxAssumptions == 2

MaxConstructNodes == 3

MaxRecursionNodes == 3

----------------------------------------------------------------------------
(* Python values *)

None == <<>>

AssertionError == << <<"AssertionError">> >>

ValueError == << <<"ValueError">> >>

LowerPZ == {"p", "q", "r", "s", "t", "u", "v", "w", "x", "y", "z"}

Decimals == {"0", "1", "2", "3", "4", "5", "6", "7", "8", "9"}

isdecimal(s) == s # <<>> /\ \A i \in 1..Len(s) : s[i] \in Decimals

startswith(s, prefix) ==
    Len(prefix) <= Len(s) /\ SubSeq(s, 1, Len(prefix)) = prefix

\* s[i:] for a 0-based i
SliceFrom(s, i) == SubSeq(s, i + 1, Len(s))

\* s[:i] for a 0-based i
SliceTo(s, i) == SubSeq(s, 1, i)

----------------------------------------------------------------------------
(* propositions/syntax.py *)

is_variable(s) ==
    /\ s[1] \in LowerPZ
    /\ (Len(s) = 1 \/ isdecimal(Tail(s)))

is_constant(s) == s = <<"T">> \/ s = <<"F">>

is_unary(s) == s = <<"~">>

is_binary(s) ==
    s \in {<<"&">>, <<"|">>, <<"-", ">">>, <<"+">>, <<"<", "-", ">">>,
           <<"-", "&">>, <<"-", "|">>}

\* a mutation of Formula: a second operand of ~ is not refused
Formula_mutant(root_, first_, second_) ==
    IF is_variable(root_) \/ is_constant(root_)
    THEN IF first_ = None /\ second_ = None THEN <<root_>> ELSE AssertionError
    ELSE IF is_unary(root_)
    THEN IF first_ # None THEN <<root_, first_>> ELSE AssertionError
    ELSE IF ~is_binary(root_) THEN AssertionError
    ELSE IF first_ # None /\ second_ # None
         THEN <<root_, first_, second_>> ELSE AssertionError

\* Formula.__init__: the object, or AssertionError
Formula(root_, first_, second_) ==
    IF is_variable(root_) \/ is_constant(root_)
    THEN IF first_ = None /\ second_ = None THEN <<root_>> ELSE AssertionError
    ELSE IF is_unary(root_)
    THEN IF first_ # None /\ second_ = None
         THEN <<root_, first_>> ELSE AssertionError
    ELSE IF ~is_binary(root_) THEN AssertionError
    ELSE IF first_ # None /\ second_ # None
         THEN <<root_, first_, second_>> ELSE AssertionError

root(f) == f[1]

first(f) == f[2]

second(f) == f[3]

\* Formula('p'), Formula('~', A) and Formula('&', A, B) with the defaults
Leaf(r) == Formula(r, None, None)

Unary(r, a) == Formula(r, a, None)

RECURSIVE repr(_)
repr(self) ==
    IF is_variable(root(self)) \/ is_constant(root(self)) THEN root(self)
    ELSE IF is_unary(root(self)) THEN root(self) \o repr(first(self))
    ELSE <<"(">> \o repr(first(self)) \o root(self)
            \o repr(second(self)) \o <<")">>

\* Formula.__eq__ between two Formula objects
Formula_eq(self, other) == repr(self) = repr(other)

\* getattr(node, 'first', None) and getattr(node, 'second', None)
getattr_first(node) == IF Len(node) >= 2 THEN node[2] ELSE None

getattr_second(node) == IF Len(node) >= 3 THEN node[3] ELSE None

RECURSIVE Formula_variables(_)
Formula_variables(node) ==
    IF node = None THEN {}
    ELSE IF is_variable(root(node)) THEN {root(node)}
    ELSE IF is_constant(root(node)) THEN {}
    ELSE Formula_variables(getattr_first(node))
            \cup Formula_variables(getattr_second(node))

RECURSIVE Formula_operators(_)
Formula_operators(node) ==
    IF node = None THEN {}
    ELSE IF is_constant(root(node)) THEN {root(node)}
    ELSE IF is_variable(root(node)) THEN {}
    ELSE {root(node)} \cup Formula_operators(getattr_first(node))
            \cup Formula_operators(getattr_second(node))

\* the while loop of _parse_prefix over the digits of a variable name: the
\* index it stops at, from index i
RECURSIVE prefix_variable_end(_, _)

\* a mutation of prefix_variable_end: the digits are not taken
prefix_variable_end_mutant(s, i) == i

prefix_variable_end(s, i) ==
    IF i < Len(s) /\ isdecimal(<<s[i + 1]>>)
    THEN prefix_variable_end(s, i + 1) ELSE i

\* a mutation of _parse_prefix_close: the closing parenthesis is not asked for
_parse_prefix_close_mutant(op, left, right, rem_after_right) ==
    <<Formula(op, left, right), SliceFrom(rem_after_right, 1)>>

\* the end of _parse_prefix on a binary formula: the closing parenthesis
_parse_prefix_close(op, left, right, rem_after_right) ==
    IF rem_after_right = <<>> \/ rem_after_right[1] # ")"
    THEN <<None, <<"missing closing ')'">> >>
    ELSE <<Formula(op, left, right), SliceFrom(rem_after_right, 1)>>

\* the operators in the order _parse_prefix tries them
ParseOperators ==
    << <<"<", "-", ">">>, <<"-", ">">>, <<"-", "&">>, <<"-", "|">>,
       <<"+">>, <<"&">>, <<"|">> >>

\* the pair _parse_prefix returns: <<formula, suffix>> or <<None, message>>
RECURSIVE _parse_prefix(_)
_parse_prefix(s) ==
    IF s = <<>> THEN <<None, <<"empty string">> >>
    ELSE IF s[1] \in LowerPZ
    THEN LET i == prefix_variable_end(s, 1)
         IN  <<Formula(SliceTo(s, i), None, None), SliceFrom(s, i)>>
    ELSE IF s[1] \in {"T", "F"}
    THEN <<Formula(<<s[1]>>, None, None), SliceFrom(s, 1)>>
    ELSE IF s[1] = "~"
    THEN LET sub == _parse_prefix(SliceFrom(s, 1))
         IN  IF sub[1] = None THEN <<None, sub[2]>>
             ELSE <<Formula(<<"~">>, sub[1], None), sub[2]>>
    ELSE IF s[1] # "("
    THEN <<None, <<"expected '(', variable, constant or unary">> >>
    ELSE LET l == _parse_prefix(SliceFrom(s, 1))
         IN  IF l[1] = None THEN <<None, l[2]>>
             ELSE LET found == {k \in 1..Len(ParseOperators) :
                                   startswith(l[2], ParseOperators[k])}
                  IN  IF found = {}
                      THEN <<None, <<"missing or invalid binary operator">> >>
                      ELSE LET op == ParseOperators[
                                   CHOOSE k \in found :
                                       \A j \in found : k <= j]
                               r == _parse_prefix(SliceFrom(l[2], Len(op)))
                           IN  IF r[1] = None THEN <<None, r[2]>>
                               ELSE _parse_prefix_close(op, l[1], r[1], r[2])

is_formula(s) ==
    LET r == _parse_prefix(s) IN r[1] # None /\ r[2] = <<>>

\* Formula.parse: the formula, or the failure of its assertion
parse(s) == IF is_formula(s) THEN _parse_prefix(s)[1] ELSE AssertionError

RECURSIVE polish(_)
polish(self) ==
    IF is_variable(root(self)) \/ is_constant(root(self)) THEN root(self)
    ELSE IF is_unary(root(self)) THEN root(self) \o polish(first(self))
    ELSE root(self) \o polish(first(self)) \o polish(second(self))

\* the while loop of parse_from over the digits of a variable name
RECURSIVE polish_variable_end(_, _)
polish_variable_end(s, j) ==
    IF j < Len(s) /\ isdecimal(<<s[j + 1]>>)
    THEN polish_variable_end(s, j + 1) ELSE j

\* parse_from(i) of parse_polish, i counted from 0: <<formula, next index>>,
\* or <<ValueError, i>> when it raises
RECURSIVE parse_from(_, _)
parse_from(s, i) ==
    IF i >= Len(s) THEN <<ValueError, i>>
    ELSE LET ch == s[i + 1]
             binary(op, start) ==
                 LET l == parse_from(s, start)
                 IN  IF l[1] = ValueError THEN l
                     ELSE LET r == parse_from(s, l[2])
                          IN  IF r[1] = ValueError THEN r
                              ELSE <<Formula(op, l[1], r[1]), r[2]>>
         IN  IF ch \in {"T", "F"}
             THEN <<Formula(<<ch>>, None, None), i + 1>>
             ELSE IF ch \in LowerPZ
             THEN LET j == polish_variable_end(s, i + 1)
                  IN  <<Formula(SubSeq(s, i + 1, j), None, None), j>>
             ELSE IF ch = "~"
             THEN LET sub == parse_from(s, i + 1)
                  IN  IF sub[1] = ValueError THEN sub
                      ELSE <<Formula(<<"~">>, sub[1], None), sub[2]>>
             ELSE IF ch \in {"&", "|"} THEN binary(<<ch>>, i + 1)
             ELSE IF startswith(SliceFrom(s, i), <<"-", ">">>)
             THEN binary(<<"-", ">">>, i + 2)
             ELSE <<ValueError, i>>

\* a mutation of parse_polish_end: what follows the formula is ignored
parse_polish_end_mutant(s, f, pos) == f

\* the end of parse_polish: nothing may follow the formula
parse_polish_end(s, f, pos) == IF pos # Len(s) THEN ValueError ELSE f

\* Formula.parse_polish: the formula, or ValueError
parse_polish(s) ==
    IF s = <<>> THEN ValueError
    ELSE LET r == parse_from(s, 0)
         IN  IF r[1] = ValueError THEN ValueError
             ELSE parse_polish_end(s, r[1], r[2])

\* the strings an invocation _parse_prefix(s) passes to its recursive calls,
\* in the order of the calls: the second call of a binary formula is made
\* when the first gave a formula and an operator follows it
_parse_prefix_calls(s) ==
    IF s = <<>> THEN <<>>
    ELSE IF s[1] = "~" THEN <<SliceFrom(s, 1)>>
    ELSE IF s[1] # "(" THEN <<>>
    ELSE LET l == _parse_prefix(SliceFrom(s, 1))
             found == {k \in 1..Len(ParseOperators) :
                          startswith(l[2], ParseOperators[k])}
         IN  IF l[1] = None \/ found = {} THEN <<SliceFrom(s, 1)>>
             ELSE LET op == ParseOperators[
                          CHOOSE k \in found : \A j \in found : k <= j]
                  IN  <<SliceFrom(s, 1), SliceFrom(l[2], Len(op))>>

\* the indexes an invocation parse_from(i) passes to its recursive calls, in
\* the order of the calls: the second call of a binary formula is made when
\* the first did not raise
parse_from_calls(s, i) ==
    IF i >= Len(s) THEN <<>>
    ELSE LET ch == s[i + 1]
             binary(start) ==
                 LET l == parse_from(s, start)
                 IN  IF l[1] = ValueError THEN <<start>>
                     ELSE <<start, l[2]>>
         IN  IF ch \in {"T", "F"} \/ ch \in LowerPZ THEN <<>>
             ELSE IF ch = "~" THEN <<i + 1>>
             ELSE IF ch \in {"&", "|"} THEN binary(i + 1)
             ELSE IF startswith(SliceFrom(s, i), <<"-", ">">>)
             THEN binary(i + 2)
             ELSE <<>>

\* Formula.substitute_variables: its body is the assertions on the keys of
\* the map and nothing else, so a call that passes them returns None
substitute_variables(self, substitution_map) ==
    IF \E i \in 1..Len(substitution_map) :
           ~is_variable(substitution_map[i][1])
    THEN AssertionError
    ELSE None

\* Formula.substitute_operators: its body is the assertions on the keys and
\* the templates of the map and nothing else, so a call that passes them
\* returns None
substitute_operators(self, substitution_map) ==
    IF \E i \in 1..Len(substitution_map) :
           \/ ~(\/ is_constant(substitution_map[i][1])
                \/ is_unary(substitution_map[i][1])
                \/ is_binary(substitution_map[i][1]))
           \/ ~(Formula_variables(substitution_map[i][2])
                    \subseteq {<<"p">>, <<"q">>})
    THEN AssertionError
    ELSE None

----------------------------------------------------------------------------
(* propositions/semantics.py *)

\* dict: keys in insertion order, lookup, and equality (order is ignored)
keys(d) == [i \in 1..Len(d) |-> d[i][1]]

keyset(d) == {d[i][1] : i \in 1..Len(d)}

getitem(d, k) == d[CHOOSE i \in 1..Len(d) : d[i][1] = k][2]

dict_eq(d, e) == {d[i] : i \in 1..Len(d)} = {e[i] : i \in 1..Len(e)}

is_model(m) == \A i \in 1..Len(m) : is_variable(m[i][1])

variables(m) == keyset(m)

\* the two assertions that open evaluate
evaluate_asserts(f, m) ==
    is_model(m) /\ Formula_variables(f) \subseteq variables(m)

\* a mutation of evaluate_binary: -| is computed as -&
evaluate_binary_mutant(r, a, b) ==
    IF r = <<"&">> THEN a /\ b
    ELSE IF r = <<"|">> THEN a \/ b
    ELSE IF r = <<"-", ">">> THEN (~a) \/ b
    ELSE IF r = <<"+">> THEN a # b
    ELSE IF r = <<"<", "-", ">">> THEN a = b
    ELSE ~(a /\ b)

\* the value evaluate returns at a binary root, from its operands' values
evaluate_binary(r, a, b) ==
    IF r = <<"&">> THEN a /\ b
    ELSE IF r = <<"|">> THEN a \/ b
    ELSE IF r = <<"-", ">">> THEN (~a) \/ b
    ELSE IF r = <<"+">> THEN a # b
    ELSE IF r = <<"<", "-", ">">> THEN a = b
    ELSE IF r = <<"-", "&">> THEN ~(a /\ b)
    ELSE ~(a \/ b)

RECURSIVE evaluate(_, _)
evaluate(f, m) ==
    IF is_constant(root(f)) THEN root(f) = <<"T">>
    ELSE IF is_variable(root(f)) THEN getitem(m, root(f))
    ELSE IF is_unary(root(f)) THEN ~evaluate(first(f), m)
    ELSE evaluate_binary(root(f), evaluate(first(f), m),
                         evaluate(second(f), m))

\* the formulas an invocation evaluate(f, m) passes to its recursive calls,
\* in the order of the calls: and, or stop at the first operand that decides
evaluate_calls(f, m) ==
    IF is_constant(root(f)) \/ is_variable(root(f)) THEN <<>>
    ELSE IF is_unary(root(f)) THEN <<first(f)>>
    ELSE IF root(f) \in {<<"&">>, <<"-", ">">>, <<"-", "&">>}
    THEN IF evaluate(first(f), m) THEN <<first(f), second(f)>>
         ELSE <<first(f)>>
    ELSE IF root(f) \in {<<"|">>, <<"-", "|">>}
    THEN IF evaluate(first(f), m) THEN <<first(f)>>
         ELSE <<first(f), second(f)>>
    ELSE <<first(f), second(f)>>

\* what a call of evaluate gives: a truth value, or the assertion's failure
Call_evaluate(f, m) ==
    IF evaluate_asserts(f, m)
    THEN [raised |-> FALSE, value |-> evaluate(f, m)]
    ELSE [raised |-> TRUE]

\* itertools.product(vals, repeat=n): the rightmost position varies fastest
RECURSIVE product(_, _)

\* a mutation of product: the leftmost position varies fastest
product_mutant(vals, n) ==
    IF n = 0 THEN << <<>> >>
    ELSE LET rest == product(vals, n - 1)
         IN  [k \in 1..(Len(vals) * Len(rest)) |->
                <<vals[((k - 1) % Len(vals)) + 1]>>
                    \o rest[((k - 1) \div Len(vals)) + 1]]

product(vals, n) ==
    IF n = 0 THEN << <<>> >>
    ELSE LET rest == product(vals, n - 1)
         IN  [k \in 1..(Len(vals) * Len(rest)) |->
                <<vals[((k - 1) \div Len(rest)) + 1]>>
                    \o rest[((k - 1) % Len(rest)) + 1]]

\* d[k] = v on a dict: a new key goes last, an old key keeps its place
setitem(d, k, v) ==
    IF k \in keyset(d)
    THEN [i \in 1..Len(d) |-> IF d[i][1] = k THEN <<k, v>> ELSE d[i]]
    ELSE Append(d, <<k, v>>)

\* dict(zip(ks, vs))
RECURSIVE dict_zip(_, _)
dict_zip(ks, vs) ==
    IF ks = <<>> \/ vs = <<>> THEN <<>>
    ELSE LET n == IF Len(ks) < Len(vs) THEN Len(ks) ELSE Len(vs)
         IN  setitem(dict_zip(SubSeq(ks, 1, n - 1), SubSeq(vs, 1, n - 1)),
                     ks[n], vs[n])

\* list(all_models(variables)), or AssertionError
all_models(variables_) ==
    IF \E i \in 1..Len(variables_) : ~is_variable(variables_[i])
    THEN AssertionError
    ELSE LET rows == product(<<FALSE, TRUE>>, Len(variables_))
         IN  [k \in 1..Len(rows) |-> dict_zip(variables_, rows[k])]

\* the characters of variable names in the order of their code points
CodePoints ==
    <<"0", "1", "2", "3", "4", "5", "6", "7", "8", "9",
      "p", "q", "r", "s", "t", "u", "v", "w", "x", "y", "z">>

ord(c) == CHOOSE i \in 1..Len(CodePoints) : CodePoints[i] = c

\* a < b on str: by the first character that differs, a prefix first
RECURSIVE str_lt(_, _)
str_lt(a, b) ==
    IF b = <<>> THEN FALSE
    ELSE IF a = <<>> THEN TRUE
    ELSE IF a[1] # b[1] THEN ord(a[1]) < ord(b[1])
    ELSE str_lt(Tail(a), Tail(b))

\* sorted(names) of a set of names
RECURSIVE sorted(_)
sorted(names) ==
    IF names = {} THEN <<>>
    ELSE LET least == CHOOSE x \in names :
                          \A y \in names \ {x} : str_lt(x, y)
         IN  <<least>> \o sorted(names \ {least})

is_tautology(f) ==
    LET vars_sorted == sorted(Formula_variables(f))
        models == all_models(vars_sorted)
    IN  \A k \in 1..Len(models) : evaluate(f, models[k])

\* a mutation of is_contradiction: not all(...) in place of not any(...)
is_contradiction_mutant(f) ==
    LET vars_sorted == sorted(Formula_variables(f))
        models == all_models(vars_sorted)
    IN  ~(\A k \in 1..Len(models) : evaluate(f, models[k]))

is_contradiction(f) ==
    LET vars_sorted == sorted(Formula_variables(f))
        models == all_models(vars_sorted)
    IN  ~(\E k \in 1..Len(models) : evaluate(f, models[k]))

is_satisfiable(f) ==
    LET vars_sorted == sorted(Formula_variables(f))
        models == all_models(vars_sorted)
    IN  \E k \in 1..Len(models) : evaluate(f, models[k])

\* a mutation of synthesize_literal: the negation is on the wrong side
synthesize_literal_mutant(v, b) ==
    IF b THEN Unary(<<"~">>, Leaf(v)) ELSE Leaf(v)

\* the literal synthesize makes of variable v for a model that gives it b
synthesize_literal(v, b) ==
    IF b THEN Leaf(v) ELSE Unary(<<"~">>, Leaf(v))

\* f = fs[0]; for g in fs[1:]: f = Formula(op, f, g)
RECURSIVE join(_, _)
join(op, fs) ==
    IF Len(fs) = 1 THEN fs[1]
    ELSE Formula(op, join(op, SubSeq(fs, 1, Len(fs) - 1)), fs[Len(fs)])

\* the conjunction synthesize makes for a model with value True
synthesize_conj(variables_, m) ==
    join(<<"&">>, [i \in 1..Len(variables_) |->
                      synthesize_literal(variables_[i],
                                         getitem(m, variables_[i]))])

\* the clauses synthesize has collected after the first k pairs of
\* zip(models, values)
RECURSIVE synthesize_clauses(_, _, _, _)
synthesize_clauses(variables_, models, values_, k) ==
    IF k = 0 THEN <<>>
    ELSE LET before == synthesize_clauses(variables_, models, values_, k - 1)
         IN  IF values_[k]
             THEN Append(before, synthesize_conj(variables_, models[k]))
             ELSE before

\* synthesize(variables, values): the formula, or AssertionError
synthesize(variables_, values_) ==
    IF ~(Len(variables_) > 0) THEN AssertionError
    ELSE IF \E i \in 1..Len(variables_) : ~is_variable(variables_[i])
    THEN AssertionError
    ELSE LET models == all_models(variables_)
             n == IF Len(models) < Len(values_)
                  THEN Len(models) ELSE Len(values_)
             clauses == synthesize_clauses(variables_, models, values_, n)
         IN  IF clauses = <<>>
             THEN LET v == variables_[1]
                  IN  Formula(<<"&">>, Leaf(v), Unary(<<"~">>, Leaf(v)))
             ELSE join(<<"|">>, clauses)

\* a mutation of synthesize_cnf_literal: the negation is on the wrong side
synthesize_cnf_literal_mutant(v, b) ==
    IF b THEN Leaf(v) ELSE Unary(<<"~">>, Leaf(v))

\* the literal _synthesize_for_all_except_model makes of variable v for a
\* model that gives it b
synthesize_cnf_literal(v, b) ==
    IF b THEN Unary(<<"~">>, Leaf(v)) ELSE Leaf(v)

\* _synthesize_for_all_except_model(model): the disjunction of the literals
\* of the model's keys in their order, or AssertionError
_synthesize_for_all_except_model(m) ==
    IF ~is_model(m) THEN AssertionError
    ELSE IF ~(Len(keys(m)) > 0) THEN AssertionError
    ELSE LET vars_list == keys(m)
         IN  join(<<"|">>, [i \in 1..Len(vars_list) |->
                               synthesize_cnf_literal(
                                   vars_list[i], getitem(m, vars_list[i]))])

\* the clauses synthesize_cnf has collected after the first k pairs of
\* zip(models, values)
RECURSIVE synthesize_cnf_clauses(_, _, _)
synthesize_cnf_clauses(models, values_, k) ==
    IF k = 0 THEN <<>>
    ELSE LET before == synthesize_cnf_clauses(models, values_, k - 1)
         IN  IF ~values_[k]
             THEN Append(before, _synthesize_for_all_except_model(models[k]))
             ELSE before

\* synthesize_cnf(variables, values): the formula, or AssertionError
synthesize_cnf(variables_, values_) ==
    IF ~(Len(variables_) > 0) THEN AssertionError
    ELSE IF \E i \in 1..Len(variables_) : ~is_variable(variables_[i])
    THEN AssertionError
    ELSE LET models == all_models(variables_)
             n == IF Len(models) < Len(values_)
                  THEN Len(models) ELSE Len(values_)
             clauses == synthesize_cnf_clauses(models, values_, n)
         IN  IF clauses = <<>>
             THEN LET v == variables_[1]
                  IN  Formula(<<"|">>, Leaf(v), Unary(<<"~">>, Leaf(v)))
             ELSE join(<<"&">>, clauses)

\* InferenceRule(assumptions, conclusion) of propositions.proofs: the
\* assumptions in order, and the conclusion
InferenceRule(assumptions_, conclusion_) == <<assumptions_, conclusion_>>

assumptions(rule) == rule[1]

conclusion(rule) == rule[2]

\* evaluate_inference: its body is the assertion on the model and nothing
\* else, so a call that passes it returns None
evaluate_inference(rule, m) ==
    IF ~is_model(m) THEN AssertionError ELSE None

\* is_sound_inference: its body is empty, so it returns None
is_sound_inference(rule) == None

----------------------------------------------------------------------------
(* propositions/operators.py *)

NOT == <<"~">>

AND == <<"&">>

OR == <<"|">>

IMPLIES == <<"-", ">">>

XOR == <<"+">>

IFF == <<"<", "-", ">">>

NAND == <<"-", "&">>

NOR == <<"-", "|">>

\* a mutation of to_not_and_or_constant: the constants are made of q
to_not_and_or_constant_mutant(r) ==
    IF r = <<"T">>
    THEN Formula(OR, Leaf(<<"q">>), Unary(NOT, Leaf(<<"q">>)))
    ELSE Formula(AND, Leaf(<<"q">>), Unary(NOT, Leaf(<<"q">>)))

\* to_not_and_or on a constant root
to_not_and_or_constant(r) ==
    IF r = <<"T">>
    THEN Formula(OR, Leaf(<<"p">>), Unary(NOT, Leaf(<<"p">>)))
    ELSE Formula(AND, Leaf(<<"p">>), Unary(NOT, Leaf(<<"p">>)))

\* a mutation of to_not_and_or_binary: A->B becomes (A|B)
to_not_and_or_binary_mutant(r, A, B) ==
    IF r = IMPLIES THEN Formula(OR, A, B)
    ELSE IF r = XOR
    THEN Formula(OR, Formula(AND, A, Unary(NOT, B)),
                     Formula(AND, Unary(NOT, A), B))
    ELSE IF r = IFF
    THEN Formula(OR, Formula(AND, A, B),
                     Formula(AND, Unary(NOT, A), Unary(NOT, B)))
    ELSE IF r = NAND THEN Unary(NOT, Formula(AND, A, B))
    ELSE IF r = NOR THEN Unary(NOT, Formula(OR, A, B))
    ELSE Formula(r, A, B)

\* to_not_and_or on a binary root, from the converted operands A and B
to_not_and_or_binary(r, A, B) ==
    IF r = AND THEN Formula(AND, A, B)
    ELSE IF r = OR THEN Formula(OR, A, B)
    ELSE IF r = IMPLIES THEN Formula(OR, Unary(NOT, A), B)
    ELSE IF r = XOR
    THEN LET left == Formula(AND, A, Unary(NOT, B))
             right == Formula(AND, Unary(NOT, A), B)
         IN  Formula(OR, left, right)
    ELSE IF r = IFF
    THEN LET left == Formula(AND, A, B)
             right == Formula(AND, Unary(NOT, A), Unary(NOT, B))
         IN  Formula(OR, left, right)
    ELSE IF r = NAND THEN Unary(NOT, Formula(AND, A, B))
    ELSE IF r = NOR THEN Unary(NOT, Formula(OR, A, B))
    ELSE Formula(r, A, B)

RECURSIVE to_not_and_or(_)
to_not_and_or(f) ==
    IF is_variable(root(f)) THEN Leaf(root(f))
    ELSE IF is_constant(root(f)) THEN to_not_and_or_constant(root(f))
    ELSE IF is_unary(root(f)) THEN Unary(NOT, to_not_and_or(first(f)))
    ELSE to_not_and_or_binary(root(f), to_not_and_or(first(f)),
                              to_not_and_or(second(f)))

\* to_not_and on a binary root of the {~,&,|} form
to_not_and_binary(r, A, B) ==
    IF r = AND THEN Formula(AND, A, B)
    ELSE IF r = OR
    THEN Unary(NOT, Formula(AND, Unary(NOT, A), Unary(NOT, B)))
    ELSE Formula(r, A, B)

RECURSIVE to_not_and(_)
to_not_and(formula_) ==
    LET f == to_not_and_or(formula_)
    IN  IF is_variable(root(f)) \/ is_constant(root(f)) THEN Leaf(root(f))
        ELSE IF is_unary(root(f)) THEN Unary(NOT, to_not_and(first(f)))
        ELSE to_not_and_binary(root(f), to_not_and(first(f)),
                               to_not_and(second(f)))

\* to_nand on a binary root of the {~,&} form
to_nand_binary(r, A, B) ==
    IF r = AND
    THEN LET nand_ab == Formula(NAND, A, B)
         IN  Formula(NAND, nand_ab, nand_ab)
    ELSE IF r = OR
    THEN LET na == Formula(NAND, A, A)
             nb == Formula(NAND, B, B)
         IN  Formula(NAND, na, nb)
    ELSE Formula(r, A, B)

RECURSIVE to_nand(_)
to_nand(formula_) ==
    LET f == to_not_and(formula_)
    IN  IF is_variable(root(f)) \/ is_constant(root(f)) THEN Leaf(root(f))
        ELSE IF is_unary(root(f))
        THEN LET A == to_nand(first(f)) IN Formula(NAND, A, A)
        ELSE to_nand_binary(root(f), to_nand(first(f)), to_nand(second(f)))

\* to_implies_not on a constant root
to_implies_not_constant(r) ==
    IF r = <<"T">>
    THEN Formula(IMPLIES, Leaf(<<"p">>), Leaf(<<"p">>))
    ELSE Unary(NOT, Formula(IMPLIES, Leaf(<<"p">>), Leaf(<<"p">>)))

\* a mutation of to_implies_not_binary: A-&B becomes (A->B)
to_implies_not_binary_mutant(r, A, B) ==
    IF r = AND THEN Unary(NOT, Formula(IMPLIES, A, Unary(NOT, B)))
    ELSE IF r = OR THEN Formula(IMPLIES, Unary(NOT, A), B)
    ELSE IF r = IMPLIES THEN Formula(IMPLIES, A, B)
    ELSE IF r = IFF
    THEN Unary(NOT, Formula(IMPLIES, Formula(IMPLIES, A, B),
                            Unary(NOT, Formula(IMPLIES, B, A))))
    ELSE IF r = XOR
    THEN Unary(NOT, Unary(NOT, Formula(IMPLIES, Formula(IMPLIES, A, B),
                                   Unary(NOT, Formula(IMPLIES, B, A)))))
    ELSE IF r = NAND THEN Formula(IMPLIES, A, B)
    ELSE IF r = NOR
    THEN Unary(NOT, Formula(IMPLIES, Unary(NOT, A), B))
    ELSE Formula(r, A, B)

\* to_implies_not on a binary root, from the converted operands A and B
to_implies_not_binary(r, A, B) ==
    IF r = AND THEN Unary(NOT, Formula(IMPLIES, A, Unary(NOT, B)))
    ELSE IF r = OR THEN Formula(IMPLIES, Unary(NOT, A), B)
    ELSE IF r = IMPLIES THEN Formula(IMPLIES, A, B)
    ELSE IF r = IFF
    THEN LET leftimp == Formula(IMPLIES, A, B)
             rightimp == Formula(IMPLIES, B, A)
         IN  Unary(NOT, Formula(IMPLIES, leftimp, Unary(NOT, rightimp)))
    ELSE IF r = XOR
    THEN LET leftimp == Formula(IMPLIES, A, B)
             rightimp == Formula(IMPLIES, B, A)
             eq == Unary(NOT, Formula(IMPLIES, leftimp,
                                      Unary(NOT, rightimp)))
         IN  Unary(NOT, eq)
    ELSE IF r = NAND THEN Formula(IMPLIES, A, Unary(NOT, B))
    ELSE IF r = NOR
    THEN Unary(NOT, Formula(IMPLIES, Unary(NOT, A), B))
    ELSE Formula(r, A, B)

RECURSIVE to_implies_not(_)
to_implies_not(f) ==
    IF is_variable(root(f)) THEN Leaf(root(f))
    ELSE IF is_constant(root(f)) THEN to_implies_not_constant(root(f))
    ELSE IF is_unary(root(f)) THEN Unary(NOT, to_implies_not(first(f)))
    ELSE to_implies_not_binary(root(f), to_implies_not(first(f)),
                               to_implies_not(second(f)))

\* a mutation of to_implies_false_constant: T is kept
to_implies_false_constant_mutant(r) == Leaf(r)

\* to_implies_false on a constant root
to_implies_false_constant(r) ==
    IF r = <<"F">> THEN Leaf(<<"F">>)
    ELSE Formula(IMPLIES, Leaf(<<"F">>), Leaf(<<"F">>))

\* a mutation of to_implies_false_binary: A-|B loses its negation
to_implies_false_binary_mutant(r, A, B) ==
    LET and_map == Formula(IMPLIES,
                       Formula(IMPLIES, A,
                               Formula(IMPLIES, B, Leaf(<<"F">>))),
                       Leaf(<<"F">>))
        or_map == Formula(IMPLIES, Formula(IMPLIES, A, Leaf(<<"F">>)), B)
        eq == Formula(IMPLIES,
                  Formula(IMPLIES, Formula(IMPLIES, A, B),
                      Formula(IMPLIES, Formula(IMPLIES, B, A),
                              Leaf(<<"F">>))),
                  Leaf(<<"F">>))
    IN  IF r = AND THEN and_map
        ELSE IF r = OR THEN or_map
        ELSE IF r = IMPLIES THEN Formula(IMPLIES, A, B)
        ELSE IF r = IFF THEN eq
        ELSE IF r = XOR THEN Formula(IMPLIES, eq, Leaf(<<"F">>))
        ELSE IF r = NAND THEN Formula(IMPLIES, and_map, Leaf(<<"F">>))
        ELSE IF r = NOR THEN or_map
        ELSE Formula(r, A, B)

\* to_implies_false on a binary root, from the converted operands A and B
to_implies_false_binary(r, A, B) ==
    IF r = AND
    THEN Formula(IMPLIES,
             Formula(IMPLIES, A, Formula(IMPLIES, B, Leaf(<<"F">>))),
             Leaf(<<"F">>))
    ELSE IF r = OR
    THEN Formula(IMPLIES, Formula(IMPLIES, A, Leaf(<<"F">>)), B)
    ELSE IF r = IMPLIES THEN Formula(IMPLIES, A, B)
    ELSE IF r = IFF
    THEN LET leftimp == Formula(IMPLIES, A, B)
             rightimp == Formula(IMPLIES, B, A)
         IN  Formula(IMPLIES,
                 Formula(IMPLIES, leftimp,
                         Formula(IMPLIES, rightimp, Leaf(<<"F">>))),
                 Leaf(<<"F">>))
    ELSE IF r = XOR
    THEN LET leftimp == Formula(IMPLIES, A, B)
             rightimp == Formula(IMPLIES, B, A)
             eq == Formula(IMPLIES,
                       Formula(IMPLIES, leftimp,
                               Formula(IMPLIES, rightimp, Leaf(<<"F">>))),
                       Leaf(<<"F">>))
         IN  Formula(IMPLIES, eq, Leaf(<<"F">>))
    ELSE IF r = NAND
    THEN LET and_map == Formula(IMPLIES,
                            Formula(IMPLIES, A,
                                    Formula(IMPLIES, B, Leaf(<<"F">>))),
                            Leaf(<<"F">>))
         IN  Formula(IMPLIES, and_map, Leaf(<<"F">>))
    ELSE IF r = NOR
    THEN LET or_map == Formula(IMPLIES,
                           Formula(IMPLIES, A, Leaf(<<"F">>)), B)
         IN  Formula(IMPLIES, or_map, Leaf(<<"F">>))
    ELSE Formula(r, A, B)

RECURSIVE to_implies_false(_)
to_implies_false(f) ==
    IF is_variable(root(f)) THEN Leaf(root(f))
    ELSE IF is_constant(root(f)) THEN to_implies_false_constant(root(f))
    ELSE IF is_unary(root(f))
    THEN Formula(IMPLIES, to_implies_false(first(f)), Leaf(<<"F">>))
    ELSE to_implies_false_binary(root(f), to_implies_false(first(f)),
                                 to_implies_false(second(f)))

\* the operands a conversion recurses on, at a formula f: f.first of a unary
\* root, f.first and f.second of a binary root
operands(f) ==
    IF is_variable(root(f)) \/ is_constant(root(f)) THEN <<>>
    ELSE IF is_unary(root(f)) THEN <<first(f)>>
    ELSE <<first(f), second(f)>>

\* a mutation of to_not_and_or_calls: the recursion is on the formula itself
to_not_and_or_calls_mutant(f) ==
    IF is_variable(root(f)) \/ is_constant(root(f)) THEN <<>>
    ELSE IF is_unary(root(f)) THEN <<f>>
    ELSE <<first(f), second(f)>>

\* the formulas an invocation of each conversion passes to its recursive
\* calls, in the order of the calls
to_not_and_or_calls(f) == operands(f)

\* to_not_and recurses on the operands of f = to_not_and_or(formula)
to_not_and_calls(formula_) == operands(to_not_and_or(formula_))

\* to_nand recurses on the operands of f = to_not_and(formula)
to_nand_calls(formula_) == operands(to_not_and(formula_))

to_implies_not_calls(f) == operands(f)

to_implies_false_calls(f) == operands(f)

----------------------------------------------------------------------------
(* The formulas the exploration builds, and the calls it makes on them *)

Constants == {<<"T">>, <<"F">>}

BinaryOperators == {AND, OR, IMPLIES, XOR, IFF, NAND, NOR}

VariableNames == {<<"p">>, <<"q">>}

Leaves == {Leaf(r) : r \in VariableNames \cup Constants}

RECURSIVE Nodes(_)
Nodes(f) ==
    IF Len(f) = 1 THEN 1
    ELSE IF Len(f) = 2 THEN 1 + Nodes(f[2])
    ELSE 1 + Nodes(f[2]) + Nodes(f[3])

\* the argument lists of all_models the exploration evaluates under
VariableLists == {<<>>, << <<"q">> >>, << <<"p">>, <<"q">> >>}

Init ==
    /\ formula \in Leaves
    /\ string = <<>>
    /\ model = <<>>
    /\ varlist = <<>>
    /\ values = <<>>
    /\ args = <<>>
    /\ call = "Formula"
    /\ ret = formula

\* Formula('~', formula)
ConstructUnary ==
    /\ call = "Formula"
    /\ Nodes(formula) < MaxNodes
    /\ formula' = Formula(NOT, formula, None)
    /\ call' = "Formula"
    /\ ret' = formula'
    /\ UNCHANGED <<string, model, varlist, values, args>>

\* Formula(op, formula, leaf) and Formula(op, leaf, formula)
ConstructBinary ==
    /\ call = "Formula"
    /\ Nodes(formula) + 1 < MaxNodes
    /\ \E op \in BinaryOperators, leaf \in Leaves :
          \/ formula' = Formula(op, formula, leaf)
          \/ formula' = Formula(op, leaf, formula)
    /\ call' = "Formula"
    /\ ret' = formula'
    /\ UNCHANGED <<string, model, varlist, values, args>>

Reduce(name, result) ==
    /\ call = "Formula"
    /\ call' = name
    /\ ret' = result
    /\ UNCHANGED <<formula, string, model, varlist, values, args>>

CallToNotAndOr == Reduce("to_not_and_or", to_not_and_or(formula))

CallToNotAnd == Reduce("to_not_and", to_not_and(formula))

\* the result of to_nand doubles with every level of the formula
CallToNand ==
    /\ Nodes(formula) <= MaxNandNodes
    /\ Reduce("to_nand", to_nand(formula))

CallToImpliesNot == Reduce("to_implies_not", to_implies_not(formula))

CallToImpliesFalse == Reduce("to_implies_false", to_implies_false(formula))

\* evaluate(formula, m) for a model m of all_models
CallEvaluate ==
    /\ call = "Formula"
    /\ \E vl \in VariableLists :
          \E k \in 1..Len(all_models(vl)) : model' = all_models(vl)[k]
    /\ call' = "evaluate"
    /\ ret' = Call_evaluate(formula, model')
    /\ UNCHANGED <<formula, string, varlist, values, args>>

Next ==
    \/ ConstructUnary
    \/ ConstructBinary
    \/ CallToNotAndOr
    \/ CallToNotAnd
    \/ CallToNand
    \/ CallToImpliesNot
    \/ CallToImpliesFalse
    \/ CallEvaluate

Spec == Init /\ [][Next]_vars

----------------------------------------------------------------------------
(* The texts the exploration parses: the representation of a formula, as   *)
(* it is or with one character deleted, appended or put in front           *)

SyntaxLeaves ==
    {Leaf(<<"p">>), Leaf(<<"x", "1", "2">>), Leaf(<<"T">>), Leaf(<<"F">>)}

AppendedChars == {")", "1", "p", "~"}

PrependedChars == {"a", "~"}

InitSyntax ==
    /\ formula \in SyntaxLeaves
    /\ string = <<>>
    /\ model = <<>>
    /\ varlist = <<>>
    /\ values = <<>>
    /\ args = <<>>
    /\ call = "Formula"
    /\ ret = formula

\* Formula('~', formula)
SyntaxConstructUnary ==
    /\ call = "Formula"
    /\ Nodes(formula) < MaxSyntaxNodes
    /\ formula' = Formula(NOT, formula, None)
    /\ call' = "Formula"
    /\ ret' = formula'
    /\ UNCHANGED <<string, model, varlist, values, args>>

\* Formula(op, formula, Formula('x12')) and Formula(op, Formula('T'), formula)
SyntaxConstructBinary ==
    /\ call = "Formula"
    /\ Nodes(formula) + 1 < MaxSyntaxNodes
    /\ \E op \in BinaryOperators :
          \/ formula' = Formula(op, formula, Leaf(<<"x", "1", "2">>))
          \/ formula' = Formula(op, Leaf(<<"T">>), formula)
    /\ call' = "Formula"
    /\ ret' = formula'
    /\ UNCHANGED <<string, model, varlist, values, args>>

\* str(formula)
CallRepr ==
    /\ call = "Formula"
    /\ string' = repr(formula)
    /\ call' = "repr"
    /\ ret' = string'
    /\ UNCHANGED <<formula, model, varlist, values, args>>

\* formula.polish()
CallPolish ==
    /\ call = "Formula"
    /\ string' = polish(formula)
    /\ call' = "polish"
    /\ ret' = string'
    /\ UNCHANGED <<formula, model, varlist, values, args>>

Edit(text) ==
    /\ call \in {"repr", "polish"}
    /\ string' = text
    /\ call' = "edit"
    /\ ret' = text
    /\ UNCHANGED <<formula, model, varlist, values, args>>

DeleteChar ==
    \E i \in 1..Len(string) :
        Edit(SubSeq(string, 1, i - 1) \o SubSeq(string, i + 1, Len(string)))

AppendChar == \E c \in AppendedChars : Edit(Append(string, c))

PrependChar == \E c \in PrependedChars : Edit(<<c>> \o string)

Truncate == \E k \in 0..(Len(string) - 1) : Edit(SubSeq(string, 1, k))

CallOnString(name, result) ==
    /\ call \in {"repr", "polish", "edit"}
    /\ call' = name
    /\ ret' = result
    /\ UNCHANGED <<formula, string, model, varlist, values, args>>

CallIsFormula == CallOnString("is_formula", is_formula(string))

CallParsePrefix == CallOnString("_parse_prefix", _parse_prefix(string))

CallParse == CallOnString("parse", parse(string))

CallParsePolish == CallOnString("parse_polish", parse_polish(string))

NextSyntax ==
    \/ SyntaxConstructUnary
    \/ SyntaxConstructBinary
    \/ CallRepr
    \/ DeleteChar
    \/ AppendChar
    \/ PrependChar
    \/ CallIsFormula
    \/ CallParsePrefix
    \/ CallParse

SpecSyntax == InitSyntax /\ [][NextSyntax]_vars

NextPolish ==
    \/ SyntaxConstructUnary
    \/ SyntaxConstructBinary
    \/ CallPolish
    \/ Truncate
    \/ AppendChar
    \/ CallParsePolish

SpecPolish == InitSyntax /\ [][NextPolish]_vars

----------------------------------------------------------------------------
(* Properties of the conversions and of evaluate *)

\* the models (dicts) whose set of keys is exactly V
ModelsOver(V) ==
    LET ks == CHOOSE q \in [1..Cardinality(V) -> V] :
                  {q[i] : i \in 1..Cardinality(V)} = V
    IN  {[i \in 1..Cardinality(V) |-> <<ks[i], g[ks[i]]>>] :
            g \in [V -> BOOLEAN]}

\* ret can be evaluated in m, to the value formula has in m
SameValueIn(m) ==
    /\ evaluate_asserts(ret, m)
    /\ evaluate_asserts(formula, m)
    /\ evaluate(ret, m) = evaluate(formula, m)

HasConstant(f) == Formula_operators(f) \cap Constants # {}

\* the variables of f, and p when f has a constant
VariablesAndP(f) ==
    Formula_variables(f) \cup (IF HasConstant(f) THEN {<<"p">>} ELSE {})

\* C1 as stated: the results of to_not_and_or, to_not_and and to_nand can be
\* evaluated in every model over exactly the variables of the formula, to
\* the value of the formula
C1_AsStated ==
    call \in {"to_not_and_or", "to_not_and", "to_nand"}
        => \A m \in ModelsOver(Formula_variables(formula)) : SameValueIn(m)

\* C1 amended: in every model over the variables of the formula, and p when
\* the formula has a constant, the results of to_not_and_or, to_not_and and
\* to_nand evaluate to the value of the formula
C1_SameTruthTable ==
    call \in {"to_not_and_or", "to_not_and", "to_nand"}
        => \A m \in ModelsOver(VariablesAndP(formula)) : SameValueIn(m)

C1_Witness ==
    /\ call = "to_nand"
    /\ formula = Formula(IMPLIES, Leaf(<<"T">>), Leaf(<<"q">>))
    /\ <<"p">> \notin Formula_variables(formula)
    /\ <<"p">> \in Formula_variables(ret)
    /\ \A m \in ModelsOver({<<"p">>, <<"q">>}) : SameValueIn(m)

\* C2 as stated: the result of to_implies_not can be evaluated in every
\* model over exactly the variables of the formula, to the value of the
\* formula
C2_AsStated ==
    call = "to_implies_not"
        => \A m \in ModelsOver(Formula_variables(formula)) : SameValueIn(m)

\* C2 amended: in every model over the variables of the formula, and p when
\* the formula has a constant, the result of to_implies_not evaluates to the
\* value of the formula
C2_SameTruthTable ==
    call = "to_implies_not"
        => \A m \in ModelsOver(VariablesAndP(formula)) : SameValueIn(m)

C2_Witness ==
    /\ call = "to_implies_not"
    /\ formula = Formula(NAND, Unary(NOT, Leaf(<<"q">>)), Leaf(<<"F">>))
    /\ <<"p">> \in Formula_variables(ret)
    /\ \A m \in ModelsOver({<<"p">>, <<"q">>}) : SameValueIn(m)

\* C3: the result of to_implies_false can be evaluated in every model over
\* exactly the variables of the formula, to the value of the formula
C3_SameTruthTable ==
    call = "to_implies_false"
        => \A m \in ModelsOver(Formula_variables(formula)) : SameValueIn(m)

C3_Witness ==
    /\ call = "to_implies_false"
    /\ formula = Formula(NOR, Unary(NOT, Leaf(<<"q">>)), Leaf(<<"T">>))
    /\ ret # formula
    /\ \A m \in ModelsOver({<<"p">>, <<"q">>}) : SameValueIn(m)

\* C4: the operators (and constants) of each conversion's result lie in its
\* target set
C4_OperatorsInBasis ==
    /\ call = "to_not_and_or" => Formula_operators(ret) \subseteq {NOT, AND, OR}
    /\ call = "to_not_and" => Formula_operators(ret) \subseteq {NOT, AND}
    /\ call = "to_nand" => Formula_operators(ret) \subseteq {NAND}
    /\ call = "to_implies_not"
          => Formula_operators(ret) \subseteq {IMPLIES, NOT}
    /\ call = "to_implies_false"
          => Formula_operators(ret) \subseteq {IMPLIES, <<"F">>}

C4_Witness ==
    /\ call = "to_implies_false"
    /\ formula = Formula(IFF, Leaf(<<"T">>), Unary(NOT, Leaf(<<"q">>)))
    /\ Formula_operators(formula) = {IFF, <<"T">>, NOT}
    /\ Formula_operators(ret) = {IMPLIES, <<"F">>}

\* the two-valued semantics of a formula under an assignment g of its
\* variables
RECURSIVE Semantics(_, _)
Semantics(f, g) ==
    CASE Len(f) = 1 ->
            IF f[1] = <<"T">> THEN TRUE
            ELSE IF f[1] = <<"F">> THEN FALSE
            ELSE g[f[1]]
      [] Len(f) = 2 -> ~Semantics(f[2], g)
      [] OTHER ->
            LET a == Semantics(f[2], g)
                b == Semantics(f[3], g)
            IN  CASE f[1] = AND -> a /\ b
                  [] f[1] = OR -> a \/ b
                  [] f[1] = IMPLIES -> a => b
                  [] f[1] = XOR -> ~(a <=> b)
                  [] f[1] = IFF -> a <=> b
                  [] f[1] = NAND -> (~a) \/ (~b)
                  [] f[1] = NOR -> (~a) /\ (~b)

\* C8: under a model that has the formula's variables (and maybe more),
\* evaluate returns the two-valued semantics of the formula under the
\* model's values of the formula's own variables
C8_EvaluateIsSemantics ==
    (call = "evaluate" /\ Formula_variables(formula) \subseteq keyset(model))
        => /\ ~ret.raised
           /\ ret.value = Semantics(formula,
                  [v \in Formula_variables(formula) |-> getitem(model, v)])

C8_Witness ==
    /\ call = "evaluate"
    /\ formula = Formula(NOR, Unary(NOT, Leaf(<<"q">>)), Leaf(<<"F">>))
    /\ model = << << <<"p">>, FALSE >>, << <<"q">>, TRUE >> >>
    /\ ~ret.raised
    /\ ret.value = TRUE

\* C18: the results of to_not_and_or, to_not_and, to_nand and to_implies_not
\* have the variables of the formula, and p besides when the formula has a
\* constant; the result of to_implies_false has the variables of the formula
C18_VariablesKept ==
    /\ call \in {"to_not_and_or", "to_not_and", "to_nand", "to_implies_not"}
          => Formula_variables(ret) = VariablesAndP(formula)
    /\ call = "to_implies_false"
          => Formula_variables(ret) = Formula_variables(formula)

C18_Witness ==
    /\ call = "to_not_and"
    /\ formula = Formula(XOR, Leaf(<<"F">>), Unary(NOT, Leaf(<<"q">>)))
    /\ Formula_variables(formula) = {<<"q">>}
    /\ Formula_variables(ret) = {<<"p">>, <<"q">>}

----------------------------------------------------------------------------
(* Properties of the two notations *)

\* C5: the representation of a formula is accepted by is_formula, and
\* parse gives the formula back: the same tree, and equal by Formula.__eq__
C5_ParseOfRepr ==
    string = repr(formula)
        => /\ call = "is_formula" => ret = TRUE
           /\ call = "parse" => (ret = formula /\ Formula_eq(ret, formula))

C5_Witness ==
    /\ call = "parse"
    /\ formula = Formula(NOR, Leaf(<<"T">>),
                         Formula(IFF, Leaf(<<"p">>), Leaf(<<"x", "1", "2">>)))
    /\ string = <<"(", "T", "-", "|", "(", "p", "<", "-", ">",
                  "x", "1", "2", ")", ")">>
    /\ ret = formula

\* the grammar of the standard notation: s is a variable name, a constant,
\* ~ and a formula, or two formulas in parentheses around a binary operator
IsName(s) ==
    /\ Len(s) >= 1
    /\ s[1] \in LowerPZ
    /\ \A i \in 2..Len(s) : s[i] \in Decimals

RECURSIVE IsStandard(_)
IsStandard(s) ==
    \/ IsName(s)
    \/ s \in {<<"T">>, <<"F">>}
    \/ (Len(s) >= 2 /\ s[1] = "~" /\ IsStandard(Tail(s)))
    \/ /\ Len(s) >= 5
       /\ s[1] = "("
       /\ s[Len(s)] = ")"
       /\ \E i \in 3..(Len(s) - 2), op \in BinaryOperators :
             /\ i + Len(op) <= Len(s) - 1
             /\ SubSeq(s, i, i + Len(op) - 1) = op
             /\ IsStandard(SubSeq(s, 2, i - 1))
             /\ IsStandard(SubSeq(s, i + Len(op), Len(s) - 1))

HasStandardPrefix(s) == \E k \in 1..Len(s) : IsStandard(SubSeq(s, 1, k))

Messages ==
    {<<"empty string">>, <<"expected '(', variable, constant or unary">>,
     <<"missing closing ')'">>, <<"missing or invalid binary operator">>}

\* C6 as stated: is_formula is true exactly of the texts of the grammar, and
\* on every other text _parse_prefix gives None and a message
C6_AsStated ==
    /\ call = "is_formula" => ret = IsStandard(string)
    /\ (call = "_parse_prefix" /\ ~IsStandard(string))
          => (ret[1] = None /\ ret[2] \in Messages)

\* C6 amended: is_formula is true exactly of the texts of the grammar;
\* _parse_prefix gives None and a message when no prefix of the text is in
\* the grammar, and otherwise the formula of a prefix and the rest of the
\* text, which is empty exactly when the whole text is in the grammar
C6_IsFormulaAndPrefix ==
    /\ call = "is_formula" => ret = IsStandard(string)
    /\ call = "_parse_prefix"
          => IF HasStandardPrefix(string)
             THEN /\ ret[1] # None
                  /\ repr(ret[1]) \o ret[2] = string
                  /\ (ret[2] = <<>>) = IsStandard(string)
             ELSE ret[1] = None /\ ret[2] \in Messages

C6_Witness ==
    /\ call = "_parse_prefix"
    /\ formula = Formula(IMPLIES, Leaf(<<"T">>), Unary(NOT, Leaf(<<"p">>)))
    /\ string = <<"(", "T", "-", ">", "~", "p", ")", ")">>
    /\ ~IsStandard(string)
    /\ ret = <<formula, <<")">> >>

PolishOperators == {NOT, AND, OR, IMPLIES}

InPolishNotation(f) ==
    Formula_operators(f) \subseteq PolishOperators \cup Constants

\* string is polish(formula) without a last part that is more than digits of
\* its last variable name: an operator of the formula lacks an operand
LacksOperand ==
    LET full == polish(formula)
    IN  /\ Len(formula) >= 2
        /\ InPolishNotation(formula)
        /\ Len(string) < Len(full)
        /\ SubSeq(full, 1, Len(string)) = string
        /\ ~isdecimal(SliceFrom(full, Len(string)))

\* string is polish(formula) and one more character, which does not extend
\* the variable name polish(formula) ends with
HasTrailing ==
    LET full == polish(formula)
    IN  /\ InPolishNotation(formula)
        /\ Len(string) = Len(full) + 1
        /\ SubSeq(string, 1, Len(full)) = full
        /\ ~(/\ string[Len(string)] \in Decimals
             /\ full[Len(full)] \in LowerPZ \cup Decimals)

\* C7: parse_polish gives back a formula of the operators ~, &, | and ->
\* from its polish notation, and raises when an operator lacks an operand
\* and when a character follows the formula; what it returns has the text
\* as its polish notation
C7_PolishRoundTrip ==
    call = "parse_polish"
        => /\ (string = polish(formula) /\ InPolishNotation(formula))
                 => ret = formula
           /\ LacksOperand => ret = ValueError
           /\ HasTrailing => ret = ValueError
           /\ ret # ValueError => polish(ret) = string

C7_Witness ==
    /\ call = "parse_polish"
    /\ formula = Formula(IMPLIES, Leaf(<<"T">>),
                     Formula(AND, Leaf(<<"p">>), Leaf(<<"x", "1", "2">>)))
    /\ string = <<"-", ">", "T", "&", "p", "x", "1", "2">>
    /\ ret = formula

----------------------------------------------------------------------------
(* The lists of variable names and the truth tables the exploration gives  *)
(* to all_models and synthesize                                            *)

ModelNames == {<<"p">>, <<"q">>, <<"x", "1">>}

RECURSIVE Pow2(_)
Pow2(n) == IF n = 0 THEN 1 ELSE 2 * Pow2(n - 1)

InitModels ==
    /\ formula = None
    /\ string = <<>>
    /\ model = <<>>
    /\ varlist = <<>>
    /\ values = <<>>
    /\ args = <<>>
    /\ call = "list"
    /\ ret = <<>>

\* one more name in the list of variables
AppendVariable ==
    /\ call = "list"
    /\ Len(varlist) < MaxVariables
    /\ \E v \in ModelNames : varlist' = Append(varlist, v)
    /\ call' = "list"
    /\ ret' = varlist'
    /\ UNCHANGED <<formula, string, model, values, args>>

\* list(all_models(varlist))
CallAllModels ==
    /\ call = "list"
    /\ call' = "all_models"
    /\ ret' = all_models(varlist)
    /\ UNCHANGED <<formula, string, model, varlist, values, args>>

\* synthesize(varlist, values) for a truth table of 2^len(varlist) values
CallSynthesize ==
    /\ call = "list"
    /\ \E t \in [1..Pow2(Len(varlist)) -> BOOLEAN] : values' = t
    /\ call' = "synthesize"
    /\ ret' = synthesize(varlist, values')
    /\ UNCHANGED <<formula, string, model, varlist, args>>

\* synthesize_cnf(varlist, values) for a truth table of 2^len(varlist) values
CallSynthesizeCnf ==
    /\ call = "list"
    /\ \E t \in [1..Pow2(Len(varlist)) -> BOOLEAN] : values' = t
    /\ call' = "synthesize_cnf"
    /\ ret' = synthesize_cnf(varlist, values')
    /\ UNCHANGED <<formula, string, model, varlist, args>>

NextModels ==
    \/ AppendVariable
    \/ CallAllModels
    \/ CallSynthesize
    \/ CallSynthesizeCnf

SpecModels == InitModels /\ [][NextModels]_vars

----------------------------------------------------------------------------
(* Properties of all_models and synthesize *)

Distinct(l) == \A i, j \in 1..Len(l) : i # j => l[i] # l[j]

\* the i-th most significant of the n bits of k
Bit(k, i, n) == ((k \div Pow2(n - i)) % 2) = 1

\* C9: for distinct names all_models gives 2^n models over exactly these
\* names, no two equal, the k-th (from 0) giving the i-th name the i-th
\* most significant bit of k; for no name it gives the one empty model
C9_AllModelsInOrder ==
    (call = "all_models" /\ Distinct(varlist))
        => LET n == Len(varlist)
           IN  /\ Len(ret) = Pow2(n)
               /\ \A k \in 1..Len(ret) :
                     /\ Len(ret[k]) = n
                     /\ keyset(ret[k]) = {varlist[i] : i \in 1..n}
                     /\ \A i \in 1..n :
                           getitem(ret[k], varlist[i]) = Bit(k - 1, i, n)
               /\ \A j, k \in 1..Len(ret) :
                     j # k => ~dict_eq(ret[j], ret[k])
               /\ n = 0 => ret = << <<>> >>

C9_Witness ==
    /\ call = "all_models"
    /\ varlist = << <<"q">>, <<"p">> >>
    /\ ret = << << <<<<"q">>, FALSE>>, <<<<"p">>, FALSE>> >>,
                << <<<<"q">>, FALSE>>, <<<<"p">>, TRUE>> >>,
                << <<<<"q">>, TRUE>>, <<<<"p">>, FALSE>> >>,
                << <<<<"q">>, TRUE>>, <<<<"p">>, TRUE>> >> >>

\* the operands of a chain ((a op b) op c) op ..., from the left
RECURSIVE Operands(_, _)
Operands(op, f) ==
    IF Len(f) = 3 /\ f[1] = op
    THEN Append(Operands(op, f[2]), f[3]) ELSE <<f>>

\* the rows among the first k that the truth table t makes true, in order
RECURSIVE TrueRows(_, _)
TrueRows(t, k) ==
    IF k = 0 THEN <<>>
    ELSE IF t[k] THEN Append(TrueRows(t, k - 1), k) ELSE TrueRows(t, k - 1)

\* C10: for distinct names and a table of 2^n values, the formula of
\* synthesize has the table's value in each model of all_models, in order;
\* it is the disjunction, row by row, of the conjunctions of each true row's
\* literals, and (v&~v) for the first name v when no row is true
C10_SynthesizeTable ==
    (call = "synthesize" /\ varlist # <<>> /\ Distinct(varlist))
        => LET n == Len(varlist)
               models == all_models(varlist)
               rows == TrueRows(values, Len(values))
               clauses == Operands(OR, ret)
           IN  /\ Len(values) = Len(models)
               /\ \A k \in 1..Len(models) :
                     /\ evaluate_asserts(ret, models[k])
                     /\ evaluate(ret, models[k]) = values[k]
               /\ rows = <<>>
                     => ret = <<AND, <<varlist[1]>>, <<NOT, <<varlist[1]>> >> >>
               /\ rows # <<>>
                     => /\ Len(clauses) = Len(rows)
                        /\ \A j \in 1..Len(rows) :
                              LET lits == Operands(AND, clauses[j])
                              IN  /\ Len(lits) = n
                                  /\ \A i \in 1..n :
                                        lits[i] =
                                          IF Bit(rows[j] - 1, i, n)
                                          THEN <<varlist[i]>>
                                          ELSE <<NOT, <<varlist[i]>> >>

C10_Witness ==
    /\ call = "synthesize"
    /\ varlist = << <<"p">>, <<"q">> >>
    /\ values = <<TRUE, TRUE, TRUE, FALSE>>
    /\ repr(ret) = <<"(", "(", "(", "~", "p", "&", "~", "q", ")", "|",
                     "(", "~", "p", "&", "q", ")", ")", "|",
                     "(", "p", "&", "~", "q", ")", ")">>

\* the rows among the first k that the truth table t makes false, in order
RECURSIVE FalseRows(_, _)
FalseRows(t, k) ==
    IF k = 0 THEN <<>>
    ELSE IF ~t[k] THEN Append(FalseRows(t, k - 1), k)
    ELSE FalseRows(t, k - 1)

\* C11: for distinct names and a table of 2^n values, the formula of
\* synthesize_cnf has the table's value in each model of all_models, in
\* order; it is the conjunction, row by row, of one disjunction of literals
\* per false row, each false in that row and in no other, and (v|~v) for the
\* first name v when no row is false
C11_SynthesizeCnfTable ==
    (call = "synthesize_cnf" /\ varlist # <<>> /\ Distinct(varlist))
        => LET n == Len(varlist)
               models == all_models(varlist)
               rows == FalseRows(values, Len(values))
               clauses == Operands(AND, ret)
           IN  /\ Len(values) = Len(models)
               /\ \A k \in 1..Len(models) :
                     /\ evaluate_asserts(ret, models[k])
                     /\ evaluate(ret, models[k]) = values[k]
               /\ rows = <<>>
                     => ret = <<OR, <<varlist[1]>>, <<NOT, <<varlist[1]>> >> >>
               /\ rows # <<>>
                     => /\ Len(clauses) = Len(rows)
                        /\ \A j \in 1..Len(rows) :
                              LET lits == Operands(OR, clauses[j])
                              IN  /\ Len(lits) = n
                                  /\ \A i \in 1..n :
                                        lits[i] =
                                          IF Bit(rows[j] - 1, i, n)
                                          THEN <<NOT, <<varlist[i]>> >>
                                          ELSE <<varlist[i]>>
                                  /\ \A k \in 1..Len(models) :
                                        evaluate(clauses[j], models[k])
                                            = (k # rows[j])

C11_Witness ==
    /\ call = "synthesize_cnf"
    /\ varlist = << <<"p">>, <<"q">> >>
    /\ values = <<FALSE, TRUE, TRUE, FALSE>>
    /\ repr(ret) = <<"(", "(", "p", "|", "q", ")", "&",
                     "(", "~", "p", "|", "~", "q", ")", ")">>

----------------------------------------------------------------------------
(* The calls of is_tautology, is_contradiction and is_satisfiable on the   *)
(* formulas the exploration builds                                         *)

Decide(name, result) ==
    /\ call = "Formula"
    /\ call' = name
    /\ ret' = result
    /\ UNCHANGED <<formula, string, model, varlist, values, args>>

CallIsTautology == Decide("is_tautology", is_tautology(formula))

CallIsContradiction == Decide("is_contradiction", is_contradiction(formula))

CallIsSatisfiable == Decide("is_satisfiable", is_satisfiable(formula))

NextDecide ==
    \/ ConstructUnary
    \/ ConstructBinary
    \/ CallIsTautology
    \/ CallIsContradiction
    \/ CallIsSatisfiable

SpecDecide == Init /\ [][NextDecide]_vars

\* the assignments of the variables of f under which f is true
TrueUnder(f) ==
    {g \in [Formula_variables(f) -> BOOLEAN] : Semantics(f, g)}

\* C15: is_tautology is true exactly when the formula is true under every
\* assignment of its variables, is_satisfiable exactly when it is true under
\* at least one, is_contradiction exactly when it is true under none; with
\* no variable the three are decided by the value under the one, empty,
\* assignment
C15_Decisions ==
    LET V == Formula_variables(formula)
        value == Semantics(formula, [v \in {} |-> TRUE])
    IN  /\ call = "is_tautology"
              => /\ ret = (TrueUnder(formula) = [V -> BOOLEAN])
                 /\ V = {} => ret = value
        /\ call = "is_satisfiable"
              => /\ ret = (TrueUnder(formula) # {})
                 /\ V = {} => ret = value
        /\ call = "is_contradiction"
              => /\ ret = (TrueUnder(formula) = {})
                 /\ V = {} => ret = ~value

C15_Witness ==
    /\ call = "is_contradiction"
    /\ formula = Formula(AND, Leaf(<<"q">>),
                         Formula(NOR, Leaf(<<"q">>), Leaf(<<"p">>)))
    /\ Formula_variables(formula) = {<<"p">>, <<"q">>}
    /\ ret = TRUE

----------------------------------------------------------------------------
(* The calls of the constructor, with roots and operands of every kind    *)

\* the roots the exploration passes: variable names, constants, operators,
\* and strings that are none of these
Roots ==
    {<<"p">>, <<"x", "1", "2">>, <<"T">>, <<"F">>, NOT}
        \cup BinaryOperators
        \cup {<<"a">>, <<"p", "q">>, <<"&", "&">>, <<"-">>, <<"~", "~">>}

\* the number of nodes of an operand; None has none
Size(operand) == IF operand = None THEN 0 ELSE Nodes(operand)

InitConstruct ==
    /\ formula = Leaf(<<"q">>)
    /\ string = <<>>
    /\ model = <<>>
    /\ varlist = <<>>
    /\ values = <<>>
    /\ args = <<>>
    /\ call = "Formula"
    /\ ret = formula

\* Formula(r, a, b) for a root r and operands a and b that are None, the last
\* formula constructed, or Formula('q'); formula stays the last formula
\* constructed
CallFormula ==
    /\ call = "Formula"
    /\ \E r \in Roots, a, b \in {None, formula, Leaf(<<"q">>)} :
          /\ 1 + Size(a) + Size(b) <= MaxConstructNodes
          /\ args' = <<r, a, b>>
    /\ call' = "Formula"
    /\ ret' = Formula(args'[1], args'[2], args'[3])
    /\ formula' = IF ret' = AssertionError THEN formula ELSE ret'
    /\ UNCHANGED <<string, model, varlist, values>>

NextConstruct == CallFormula

SpecConstruct == InitConstruct /\ [][NextConstruct]_vars

\* C16: the constructor fails exactly when a variable or constant root is
\* given an operand, when ~ is given no first operand or is given a second
\* one, when a binary operator lacks an operand, and when the root is none
\* of these; what it constructs has the root and as many operands as the
\* root takes
C16_ArityEnforced ==
    (call = "Formula" /\ args # <<>>)
        => LET r == args[1]
               a == args[2]
               b == args[3]
               fails == ret = AssertionError
           IN  /\ (IsName(r) \/ r \in Constants)
                     => /\ fails = (a # None \/ b # None)
                        /\ ~fails => ret = <<r>>
               /\ r = NOT
                     => /\ fails = (a = None \/ b # None)
                        /\ ~fails => ret = <<r, a>>
               /\ r \in BinaryOperators
                     => /\ fails = (a = None \/ b = None)
                        /\ ~fails => ret = <<r, a, b>>
               /\ (~IsName(r) /\ r \notin Constants \cup {NOT}
                                      \cup BinaryOperators)
                     => fails

C16_Witness ==
    /\ call = "Formula"
    /\ args = <<NOT, Leaf(<<"T">>), Leaf(<<"q">>)>>
    /\ formula = args[2]
    /\ ret = AssertionError

----------------------------------------------------------------------------
(* The maps the exploration gives to substitute_variables and              *)
(* substitute_operators                                                    *)

\* {'p': (q&r), 'q': p}, {'q': ~q}, {} and, with a key that is no variable
\* name, {'T': p}
VariableMaps ==
    { << << <<"p">>, Formula(AND, Leaf(<<"q">>), Leaf(<<"r">>)) >>,
         << <<"q">>, Leaf(<<"p">>) >> >>,
      << << <<"q">>, Unary(NOT, Leaf(<<"q">>)) >> >>,
      <<>>,
      << << <<"T">>, Leaf(<<"p">>) >> >> }

\* {'&': ~(~p|~q)}, {'~': (p-&p), 'T': (p|~p)}, {'->': (~p|q), 'F': (p&~p)}
\* and, with a template that has another variable than p and q, {'&': (p&r)}
OperatorMaps ==
    { << << AND, Unary(NOT, Formula(OR, Unary(NOT, Leaf(<<"p">>)),
                                        Unary(NOT, Leaf(<<"q">>)))) >> >>,
      << << NOT, Formula(NAND, Leaf(<<"p">>), Leaf(<<"p">>)) >>,
         << <<"T">>, Formula(OR, Leaf(<<"p">>),
                                 Unary(NOT, Leaf(<<"p">>))) >> >>,
      << << IMPLIES, Formula(OR, Unary(NOT, Leaf(<<"p">>)),
                                 Leaf(<<"q">>)) >>,
         << <<"F">>, Formula(AND, Leaf(<<"p">>),
                                  Unary(NOT, Leaf(<<"p">>))) >> >>,
      << << AND, Formula(AND, Leaf(<<"p">>), Leaf(<<"r">>)) >> >> }

\* formula.substitute_variables(m)
CallSubstituteVariables ==
    /\ call = "Formula"
    /\ \E m \in VariableMaps : args' = m
    /\ call' = "substitute_variables"
    /\ ret' = substitute_variables(formula, args')
    /\ UNCHANGED <<formula, string, model, varlist, values>>

\* formula.substitute_operators(m)
CallSubstituteOperators ==
    /\ call = "Formula"
    /\ \E m \in OperatorMaps : args' = m
    /\ call' = "substitute_operators"
    /\ ret' = substitute_operators(formula, args')
    /\ UNCHANGED <<formula, string, model, varlist, values>>

NextSubstitute ==
    \/ ConstructUnary
    \/ ConstructBinary
    \/ CallSubstituteVariables
    \/ CallSubstituteOperators

SpecSubstitute == Init /\ [][NextSubstitute]_vars

----------------------------------------------------------------------------
(* Properties of the substitutions *)

\* f with each variable leaf whose name is a key of m replaced by the map's
\* formula for it, in one pass
RECURSIVE VariablesReplaced(_, _)
VariablesReplaced(f, m) ==
    IF Len(f) = 1
    THEN IF f[1] \in keyset(m) THEN getitem(m, f[1]) ELSE f
    ELSE IF Len(f) = 2 THEN <<f[1], VariablesReplaced(f[2], m)>>
    ELSE <<f[1], VariablesReplaced(f[2], m), VariablesReplaced(f[3], m)>>

IsVariableMap(m) == \A i \in 1..Len(m) : IsName(m[i][1])

\* C12: for a map from variable names to formulas, substitute_variables
\* returns the formula with each variable leaf whose name is a key replaced,
\* in one pass, by the map's formula for it, every other node kept
C12_AsStated ==
    (call = "substitute_variables" /\ IsVariableMap(args))
        => /\ ret # None
           /\ ret # AssertionError
           /\ ret = VariablesReplaced(formula, args)

\* f with each node whose root is a key of m replaced, from the leaves up,
\* by the key's template, p bound to the replaced first operand and q to the
\* replaced second operand
RECURSIVE OperatorsReplaced(_, _)
OperatorsReplaced(f, m) ==
    LET bound ==
            IF Len(f) = 1 THEN <<>>
            ELSE IF Len(f) = 2
            THEN << << <<"p">>, OperatorsReplaced(f[2], m) >> >>
            ELSE << << <<"p">>, OperatorsReplaced(f[2], m) >>,
                    << <<"q">>, OperatorsReplaced(f[3], m) >> >>
    IN  IF f[1] \in keyset(m) /\ ~IsName(f[1])
        THEN VariablesReplaced(getitem(m, f[1]), bound)
        ELSE IF Len(f) = 1 THEN f
        ELSE IF Len(f) = 2 THEN <<f[1], bound[1][2]>>
        ELSE <<f[1], bound[1][2], bound[2][2]>>

IsOperatorMap(m) ==
    \A i \in 1..Len(m) :
        /\ m[i][1] \in Constants \cup {NOT} \cup BinaryOperators
        /\ Formula_variables(m[i][2]) \subseteq {<<"p">>, <<"q">>}

\* C13: for a map from constants and operators to templates over p and q,
\* substitute_operators returns the formula with each node whose root is a
\* key replaced, from the leaves up, by the key's template with p and q
\* bound to the replaced operands
C13_AsStated ==
    (call = "substitute_operators" /\ IsOperatorMap(args))
        => /\ ret # None
           /\ ret # AssertionError
           /\ ret = OperatorsReplaced(formula, args)

----------------------------------------------------------------------------
(* The inference rules the exploration gives to evaluate_inference and     *)
(* is_sound_inference                                                      *)

\* p, q, ~p, (p->q), (p&q) and (p|q)
RuleFormulas ==
    {Leaf(<<"p">>), Leaf(<<"q">>), Unary(NOT, Leaf(<<"p">>)),
     Formula(IMPLIES, Leaf(<<"p">>), Leaf(<<"q">>)),
     Formula(AND, Leaf(<<"p">>), Leaf(<<"q">>)),
     Formula(OR, Leaf(<<"p">>), Leaf(<<"q">>))}

\* the variables of the assumptions and of the conclusion of a rule
RuleVariables(rule) ==
    UNION {Formula_variables(assumptions(rule)[i]) :
              i \in 1..Len(assumptions(rule))}
        \cup Formula_variables(conclusion(rule))

\* InferenceRule([], conclusion)
InitInference ==
    /\ formula = None
    /\ string = <<>>
    /\ model = <<>>
    /\ varlist = <<>>
    /\ values = <<>>
    /\ \E c \in RuleFormulas : args = InferenceRule(<<>>, c)
    /\ call = "InferenceRule"
    /\ ret = None

\* InferenceRule(assumptions + [a], conclusion)
AppendAssumption ==
    /\ call = "InferenceRule"
    /\ Len(assumptions(args)) < MaxAssumptions
    /\ \E a \in RuleFormulas :
          args' = InferenceRule(Append(assumptions(args), a),
                                conclusion(args))
    /\ call' = "InferenceRule"
    /\ ret' = None
    /\ UNCHANGED <<formula, string, model, varlist, values>>

\* evaluate_inference(rule, m) for a model m over the variables of the rule
CallEvaluateInference ==
    /\ call = "InferenceRule"
    /\ \E k \in 1..Len(all_models(sorted(RuleVariables(args)))) :
          model' = all_models(sorted(RuleVariables(args)))[k]
    /\ call' = "evaluate_inference"
    /\ ret' = evaluate_inference(args, model')
    /\ UNCHANGED <<formula, string, varlist, values, args>>

\* is_sound_inference(rule)
CallIsSoundInference ==
    /\ call = "InferenceRule"
    /\ call' = "is_sound_inference"
    /\ ret' = is_sound_inference(args)
    /\ UNCHANGED <<formula, string, model, varlist, values, args>>

NextInference ==
    \/ AppendAssumption
    \/ CallEvaluateInference
    \/ CallIsSoundInference

SpecInference == InitInference /\ [][NextInference]_vars

----------------------------------------------------------------------------
(* Properties of the inference checks *)

\* every assumption of the rule evaluates to true in m and its conclusion to
\* false
Refutes(m, rule) ==
    /\ \A i \in 1..Len(assumptions(rule)) : evaluate(assumptions(rule)[i], m)
    /\ ~evaluate(conclusion(rule), m)

\* C14: evaluate_inference returns False exactly when every assumption is
\* true and the conclusion false in the model, and True otherwise;
\* is_sound_inference returns True exactly when no model over the variables
\* of the rule does so
C14_AsStated ==
    /\ call = "evaluate_inference"
          => /\ ret # None
             /\ ret # AssertionError
             /\ ret = ~Refutes(model, args)
    /\ call = "is_sound_inference"
          => /\ ret # None
             /\ ret = (\A m \in ModelsOver(RuleVariables(args)) :
                          ~Refutes(m, args))

----------------------------------------------------------------------------
(* The recursion of the parsers, of evaluate and of the conversions: args  *)
(* is the stack of the invocations still to run, each as <<the argument of *)
(* the invocation that calls it, its own argument>>, and as <<its own      *)
(* argument>> for the call from outside                                    *)

Conversions ==
    {"to_not_and_or", "to_not_and", "to_nand", "to_implies_not",
     "to_implies_false"}

Algorithms == Conversions \cup {"evaluate", "_parse_prefix", "parse_from"}

\* Formula('~', formula)
RecursionConstructUnary ==
    /\ call = "Formula"
    /\ Nodes(formula) < MaxRecursionNodes
    /\ formula' = Formula(NOT, formula, None)
    /\ call' = "Formula"
    /\ ret' = formula'
    /\ UNCHANGED <<string, model, varlist, values, args>>

\* Formula(op, formula, leaf) and Formula(op, leaf, formula)
RecursionConstructBinary ==
    /\ call = "Formula"
    /\ Nodes(formula) + 1 < MaxRecursionNodes
    /\ \E op \in BinaryOperators, leaf \in Leaves :
          \/ formula' = Formula(op, formula, leaf)
          \/ formula' = Formula(op, leaf, formula)
    /\ call' = "Formula"
    /\ ret' = formula'
    /\ UNCHANGED <<string, model, varlist, values, args>>

\* the call from outside of a conversion on formula
StartConversion ==
    /\ call = "Formula"
    /\ call' \in Conversions
    /\ args' = << <<formula>> >>
    /\ UNCHANGED <<formula, string, model, varlist, values, ret>>

\* the call from outside of evaluate on formula and a model of its variables
StartEvaluate ==
    /\ call = "Formula"
    /\ call' = "evaluate"
    /\ \E k \in 1..Len(all_models(sorted(Formula_variables(formula)))) :
          model' = all_models(sorted(Formula_variables(formula)))[k]
    /\ args' = << <<formula>> >>
    /\ UNCHANGED <<formula, string, varlist, values, ret>>

\* the call from outside of _parse_prefix on str(formula)
StartParsePrefix ==
    /\ call = "Formula"
    /\ call' = "_parse_prefix"
    /\ string' = repr(formula)
    /\ args' = << <<string'>> >>
    /\ UNCHANGED <<formula, model, varlist, values, ret>>

\* the call parse_from(0) of parse_polish on formula.polish()
StartParsePolish ==
    /\ call = "Formula"
    /\ call' = "parse_from"
    /\ string' = polish(formula)
    /\ args' = << <<0>> >>
    /\ UNCHANGED <<formula, model, varlist, values, ret>>

\* the arguments of the recursive calls of an invocation of algorithm name
\* on argument a
calls(name, a) ==
    IF name = "to_not_and_or" THEN to_not_and_or_calls(a)
    ELSE IF name = "to_not_and" THEN to_not_and_calls(a)
    ELSE IF name = "to_nand" THEN to_nand_calls(a)
    ELSE IF name = "to_implies_not" THEN to_implies_not_calls(a)
    ELSE IF name = "to_implies_false" THEN to_implies_false_calls(a)
    ELSE IF name = "evaluate" THEN evaluate_calls(a, model)
    ELSE IF name = "_parse_prefix" THEN _parse_prefix_calls(a)
    ELSE parse_from_calls(string, a)

\* the stack after the invocation on top of it has run: its recursive calls
\* are next, in their order; a parse_from that raises without a call ends
\* all
unwound(stack) ==
    LET a == Head(stack)[Len(Head(stack))]
        cs == calls(call, a)
    IN  IF /\ call = "parse_from"
           /\ cs = <<>>
           /\ parse_from(string, a)[1] = ValueError
        THEN <<>>
        ELSE [i \in 1..Len(cs) |-> <<a, cs[i]>>] \o Tail(stack)

\* the invocation on top of the stack runs
RunInvocation ==
    /\ call \in Algorithms
    /\ args # <<>>
    /\ args' = unwound(args)
    /\ UNCHANGED <<formula, string, model, varlist, values, call, ret>>

NextRecursion ==
    \/ RecursionConstructUnary
    \/ RecursionConstructBinary
    \/ StartConversion
    \/ StartEvaluate
    \/ StartParsePrefix
    \/ StartParsePolish
    \/ RunInvocation

\* RunInvocation can change the state: ENABLED <<RunInvocation>>_vars, as
\* the state predicate it is
Runnable ==
    /\ call \in Algorithms
    /\ args # <<>>
    /\ unwound(args) # args

\* an invocation that was called runs: the weak fairness of RunInvocation,
\* WF_vars(RunInvocation), with Runnable for its ENABLED
RunInvocationFair == []<>(~Runnable) \/ []<><<RunInvocation>>_vars

SpecRecursion == Init /\ [][NextRecursion]_vars /\ RunInvocationFair

----------------------------------------------------------------------------
(* Properties of the recursion *)

\* the subtrees of f other than f
RECURSIVE ProperSubtrees(_)
ProperSubtrees(f) ==
    IF Len(f) = 1 THEN {}
    ELSE IF Len(f) = 2 THEN {f[2]} \cup ProperSubtrees(f[2])
    ELSE {f[2], f[3]} \cup ProperSubtrees(f[2]) \cup ProperSubtrees(f[3])

\* the invocations on the stack that were called by an invocation
Called == {i \in 1..Len(args) : Len(args[i]) = 2}

\* the formula an invocation of a parser parses from its argument
Parsed(x) ==
    IF call = "_parse_prefix" THEN _parse_prefix(x)[1]
    ELSE parse_from(string, x)[1]

\* a recursive call of a parser is on a later part of the text, and the
\* formula it parses is a proper subtree of the formula its caller parses
ParserDescends(e) ==
    /\ IF call = "_parse_prefix"
       THEN /\ Len(e[2]) < Len(e[1])
            /\ e[2] = SliceFrom(e[1], Len(e[1]) - Len(e[2]))
       ELSE e[1] < e[2] /\ e[2] <= Len(string)
    /\ Parsed(e[1]) \notin {None, ValueError}
          => Parsed(e[2]) \in ProperSubtrees(Parsed(e[1]))

\* C17 as stated: every recursive call of the parsers, of evaluate and of
\* the conversions is on a proper subtree of the formula passed to the
\* invocation that makes it
C17_AsStated ==
    call \in Algorithms
        => \A i \in Called :
              IF call \in {"_parse_prefix", "parse_from"}
              THEN ParserDescends(args[i])
              ELSE args[i][2] \in ProperSubtrees(args[i][1])

\* the formula whose operands an invocation on x recurses on: x, but what
\* to_not_and_or makes of x in to_not_and, and what to_not_and makes of x in
\* to_nand
Descended(x) ==
    IF call = "to_not_and" THEN to_not_and_or(x)
    ELSE IF call = "to_nand" THEN to_not_and(x)
    ELSE x

\* every recursive call is on a proper subtree of the formula passed to the
\* invocation that makes it, and in to_not_and and to_nand on a proper
\* subtree of what that formula is first converted to, the converted callee
\* being smaller than the converted caller
C17_Descends ==
    call \in Algorithms
        => \A i \in Called :
              IF call \in {"_parse_prefix", "parse_from"}
              THEN ParserDescends(args[i])
              ELSE /\ args[i][2] \in ProperSubtrees(Descended(args[i][1]))
                   /\ Nodes(Descended(args[i][2]))
                         < Nodes(Descended(args[i][1]))

\* C17 amended: every invocation that is called returns, so that the call
\* from outside returns; every recursive call is on a proper subtree of the
\* formula passed to the invocation that makes it, except in to_not_and and
\* to_nand, where it is on a proper subtree of the converted formula
C17_DescendsAndTerminates ==
    /\ [](C17_Descends)
    /\ [](call \in Algorithms => <>(args = <<>>))

C17_Witness ==
    /\ call = "to_not_and"
    /\ formula = Formula(XOR, Leaf(<<"p">>), Leaf(<<"q">>))
    /\ args = << <<formula, Formula(AND, Leaf(<<"p">>),
                                    Unary(NOT, Leaf(<<"q">>)))>>,
                 <<formula, Formula(AND, Unary(NOT, Leaf(<<"p">>)),
                                    Leaf(<<"q">>))>> >>
    /\ args[1][2] \notin ProperSubtrees(formula)
    /\ Nodes(args[1][2]) > Nodes(formula)

====
